---- MODULE Spec2Model ----
(***************************************************************************)
(* Lazy-consensus proposal/voting lifecycle of the Discord bot:            *)
(* bot/vote.py (on_raw_reaction_add, on_raw_reaction_remove,               *)
(* cancel_proposal, is_valid_voting_reaction), bot/grant.py (grant) and    *)
(* the store schema of bot/config/schemas.py.                              *)
(*                                                                         *)
(* Scheduling.  The handlers are asyncio coroutines on one event loop, so  *)
(* a handler runs without interruption from one suspension to the next.    *)
(* A handler is suspended at the awaits that perform Discord I/O           *)
(* (get_message, fetch_message, add_reaction, reply, edit, send,           *)
(* create_dm, remove_reaction).  The awaits on the store helpers           *)
(* (get_voter, add_voter, remove_voter, remove_proposal,                   *)
(* db.add_proposals_history_item) do not suspend: the ORM of schemas.py is *)
(* the synchronous SQLAlchemy ORM (proposal.voters is read without await   *)
(* at vote.py:136, 276, 288) and the spec (4.1, 5) describes the index and *)
(* store operations as synchronous.  Every action below is therefore the   *)
(* code between two consecutive Discord awaits of one handler.  The code   *)
(* takes no lock anywhere.                                                 *)
(***************************************************************************)
EXTENDS Integers, Sequences, FiniteSets, TLC

\* ---------------------------------------------------------------- bounds
NumProposals == 2
NumUsers     == 4
MaxThreshold == 3
NumHandlers  == 2

Pids     == 1..NumProposals      \* a proposal is named by its voting_message_id
Users    == 1..NumUsers
Handlers == 1..NumHandlers       \* handler invocations that can be in flight

\* ------------------------------------------------------------- constants
ACCEPTED                        == "ACCEPTED"
CANCELLED_BY_PROPOSER           == "CANCELLED_BY_PROPOSER"
CANCELLED_BY_REACHING_THRESHOLD == "CANCELLED_BY_REACHING_THRESHOLD"

\* proposal.author: the proposer of proposal p (fixed when the proposal is
\* created, outside the modelled files)
Author(p) == ((p - 1) % NumUsers) + 1

\* proposal.message_id: the proposer's original request message of p
OriginalMessage(p) == NumProposals + p

\* payload.message_id ranges over voting messages and original messages
Messages == Pids \cup {OriginalMessage(p) : p \in Pids}
Emojis   == {"cancel", "heart"}
Channels == {"voting", "other", "forum"}

\* the reaction events delivered: <<emoji, role_ok, channel>> with at most one
\* gate of is_valid_voting_reaction failing
Gates == {g \in Emojis \X BOOLEAN \X Channels :
            \/ g[1] = "cancel" /\ g[2]
            \/ g[1] = "cancel" /\ g[3] = "voting"
            \/ g[2] /\ g[3] = "voting"}

\* the bounds of the CheckConstraint on Proposals.amount
MaxAmount == 1000000000
MinAmount == -1000000000

\* a NULL amount column
Null == <<>>

\* the amounts a proposal is created with: none, and numbers at, next to, and
\* beyond the two bounds
Amounts == {Null} \cup {<<a>> : a \in {2 * MinAmount, MinAmount, MinAmount + 1, -1, 0, 1,
                                       MaxAmount - 1, MaxAmount, 2 * MaxAmount}}

VARIABLES
    proposals,   \* the index of live proposals (proposal_utils.proposals): set of voting_message_id
    threshold,   \* proposal.threshold (LAZY_CONSENSUS_THRESHOLD when the proposals were created)
    amount,      \* proposal.amount: <<>> for a NULL column, <<a>> for the number a
    voters,      \* Voters rows: voters[p][u] = number of rows (user_id = u, voting_message_id = p)
    detached,    \* len(proposal.voters) of the proposal object of a deleted proposal, while
                 \* a handler suspended at vote.py:251 holds the object and will read the
                 \* list; 0 for a live proposal (the list is the Voters rows) and once no
                 \* such handler is left (nothing reads the list any more)
    history,     \* ProposalHistory rows: history[p] = the results of the rows of p, in creation order
    recovery,    \* db.is_recovery()
    hs           \* the handler invocations: [pc, user, pid, reason]; the locals are kept
                 \* only while the remaining code of the handler uses them

vars == <<proposals, threshold, amount, voters, detached, history, recovery, hs>>

IdleHandler == [pc |-> "idle", user |-> 0, pid |-> 0, reason |-> "none"]

\* ---------------------------------------------------------------- helpers
\* len(proposal.voters)
VoterCount(p) == LET Sum[S \in SUBSET Users] ==
                         IF S = {} THEN 0
                         ELSE LET u == CHOOSE x \in S : TRUE
                              IN voters[p][u] + Sum[S \ {u}]
                 IN Sum[Users]

\* the users that have a Voters row on p
VoterSet(p) == {u \in Users : voters[p][u] > 0}

\* proposal_utils.is_relevant_proposal(message_id)
is_relevant_proposal(m) == m \in proposals

\* proposal_utils.get_voter(user_id, voting_message_id): is there a row
get_voter(u, m) == voters[m][u] > 0

\* db.is_recovery()
is_recovery == recovery

\* amount_check with the two bounds included
amount_check_inclusive(a) ==
    \/ a = Null
    \/ a[1] >= MinAmount /\ a[1] <= MaxAmount

\* CheckConstraint('amount > -1000000000 AND amount < 1000000000'): the store
\* rejects the row when the condition is false; for a NULL amount it is not
\* false (SQL evaluates it to unknown) and the row is accepted
amount_check(a) ==
    \/ a = Null
    \/ a[1] > MinAmount /\ a[1] < MaxAmount

\* is_valid_voting_reaction without the role gate of lines 41-44
is_valid_voting_reaction_no_role(emoji, role_ok, channel, m) ==
    IF emoji # "cancel" THEN FALSE
    ELSE IF channel = "forum" THEN FALSE
    ELSE IF channel # "voting" THEN FALSE
    ELSE is_relevant_proposal(m)

\* proposal_utils.get_proposal_initiated_by(message_id): the live proposals
\* whose original message is message_id (the empty set is the code's None)
get_proposal_initiated_by(m) == {p \in proposals : OriginalMessage(p) = m}

\* vote.py is_valid_voting_reaction, lines 36-57 for REACTION_ADD: the emoji,
\* role and forum gates pass and the reaction is on the original message of a
\* live proposal, so the function enters the helper branch of lines 58-71
\* and awaits Discord (fetch_message, remove_reaction, get_message, create_dm,
\* send) before it reaches the gates of lines 74 and 79
voted_on_wrong_message(emoji, role_ok, channel, m) ==
    /\ emoji = "cancel"
    /\ role_ok
    /\ channel # "forum"
    /\ get_proposal_initiated_by(m) # {}

\* vote.py is_valid_voting_reaction: the value it returns, the gates in the
\* order of the code (the helper branch of lines 55-71 changes no gate; its
\* awaits are the handler position "help_wrong_message" of AddStart)
is_valid_voting_reaction(emoji, role_ok, channel, m) ==
    IF emoji # "cancel" THEN FALSE
    ELSE IF ~role_ok THEN FALSE
    ELSE IF channel = "forum" THEN FALSE
    ELSE IF channel # "voting" THEN FALSE
    ELSE is_relevant_proposal(m)

\* proposal_utils.add_voter(proposal, Voters(user_id, voting_message_id))
add_voter(p, u) == [voters EXCEPT ![p][u] = @ + 1]

\* add_voter for a proposal whose row was deleted (a handler that looked the
\* proposal up at line 248 and resumes after another handler archived it):
\* vote.py:269-272 calls add_voter with no check, the Voters row is built
\* without grant_proposal_id and the foreign key column of schemas.py:69 is
\* nullable; what the call does is decided by code that is not in the
\* repository, so AddVote takes the outcomes of AddVoteDeleted
add_voter_may_raise(p) == p \notin proposals

\* proposal_utils.remove_voter(proposal, voter)
remove_voter(p, u) == [voters EXCEPT ![p][u] = @ - 1]

\* DeleteCascade without the filter on the proposal: every Voters row goes
DeleteCascadeAll(p) == [q \in Pids |-> [u \in Users |-> 0]]

\* the cascade of Proposals.voters: deleting the proposal deletes its rows
DeleteCascade(p) == [voters EXCEPT ![p] = [u \in Users |-> 0]]

\* db.add_proposals_history_item(proposal, reason)
add_proposals_history_item(p, reason) == [history EXCEPT ![p] = Append(@, reason)]

\* Decide with the threshold rule tried before the author rule
DecideThresholdFirst(u, p, count) ==
    IF count >= threshold[p] THEN CANCELLED_BY_REACHING_THRESHOLD
    ELSE IF Author(p) = u THEN CANCELLED_BY_PROPOSER
    ELSE "none"

\* Decide with a strict comparison in the threshold rule
DecideStrictThreshold(u, p, count) ==
    IF Author(p) = u THEN CANCELLED_BY_PROPOSER
    ELSE IF count > threshold[p] THEN CANCELLED_BY_REACHING_THRESHOLD
    ELSE "none"

\* Decide without the author rule
DecideNoAuthorRule(u, p, count) ==
    IF count >= threshold[p] THEN CANCELLED_BY_REACHING_THRESHOLD
    ELSE "none"

\* the rule order of on_raw_reaction_add after add_voter: the author rule,
\* then the threshold rule on the count read after the write
Decide(u, p, count) ==
    IF Author(p) = u THEN CANCELLED_BY_PROPOSER
    ELSE IF count >= threshold[p] THEN CANCELLED_BY_REACHING_THRESHOLD
    ELSE "none"

\* ------------------------------------------------------------------- Init
Init ==
    /\ proposals = Pids
    /\ \E t \in 1..MaxThreshold : threshold = [p \in Pids |-> t]
    /\ amount = [p \in Pids |-> <<0>>]
    /\ voters = [p \in Pids |-> [u \in Users |-> 0]]
    /\ detached = [p \in Pids |-> 0]
    /\ history = [p \in Pids |-> <<>>]
    /\ recovery = FALSE
    /\ hs = [h \in Handlers |-> IdleHandler]

\* the store before any proposal was created
InitAmount ==
    /\ proposals = {}
    /\ \E t \in 1..MaxThreshold : threshold = [p \in Pids |-> t]
    /\ amount = [p \in Pids |-> Null]
    /\ voters = [p \in Pids |-> [u \in Users |-> 0]]
    /\ detached = [p \in Pids |-> 0]
    /\ history = [p \in Pids |-> <<>>]
    /\ recovery = FALSE
    /\ hs = [h \in Handlers |-> IdleHandler]

\* ---------------------------------------------------------------- actions
\* a proposal with voting message p and amount a is created: the insert of the
\* Proposals row is rejected by the store when the CheckConstraint on amount
\* fails, and nothing is stored
CreateProposal(p, a) ==
    /\ p \notin proposals
    /\ IF amount_check(a)
       THEN /\ proposals' = proposals \cup {p}
            /\ amount' = [amount EXCEPT ![p] = a]
       ELSE UNCHANGED <<proposals, amount>>
    /\ UNCHANGED <<threshold, voters, detached, history, recovery, hs>>

\* db.set_recovery: the operator sets or clears the recovery flag
SetRecovery(b) ==
    /\ recovery # b
    /\ recovery' = b
    /\ UNCHANGED <<proposals, threshold, amount, voters, detached, history, hs>>

\* AddStart without the recovery gate of lines 227-246
AddStartNoRecoveryGate(h, u, m, emoji, role_ok, channel) ==
    /\ hs[h].pc = "idle"
    /\ IF voted_on_wrong_message(emoji, role_ok, channel, m)
       THEN hs' = [hs EXCEPT ![h] = [IdleHandler EXCEPT !.pc = "help_wrong_message"]]
       ELSE IF ~is_valid_voting_reaction(emoji, role_ok, channel, m)
       THEN IF emoji = "heart"
            THEN hs' = [hs EXCEPT ![h] = [IdleHandler EXCEPT !.pc = "double_heart"]]
            ELSE UNCHANGED hs
       ELSE hs' = [hs EXCEPT ![h] = [pc |-> "get_message", user |-> u,
                                     pid |-> m, reason |-> "none"]]
    /\ UNCHANGED <<proposals, threshold, amount, voters, detached, history, recovery>>

\* on_raw_reaction_add, lines 216-251: validation (a cancel reaction on the
\* original message of a live proposal suspends in the helper branch of
\* is_valid_voting_reaction; any other invalid reaction returns at once unless
\* it is a heart to double), recovery gate, lookup, up to the await of
\* get_message
AddStart(h, u, m, emoji, role_ok, channel) ==
    /\ hs[h].pc = "idle"
    /\ IF voted_on_wrong_message(emoji, role_ok, channel, m)
       THEN hs' = [hs EXCEPT ![h] = [IdleHandler EXCEPT !.pc = "help_wrong_message"]]
       ELSE IF ~is_valid_voting_reaction(emoji, role_ok, channel, m)
       THEN IF emoji = "heart"
            THEN hs' = [hs EXCEPT ![h] = [IdleHandler EXCEPT !.pc = "double_heart"]]
            ELSE UNCHANGED hs
       ELSE IF is_recovery
       THEN hs' = [hs EXCEPT ![h] = [IdleHandler EXCEPT !.pc = "recovery_reject"]]
       ELSE hs' = [hs EXCEPT ![h] = [pc |-> "get_message", user |-> u,
                                     pid |-> m, reason |-> "none"]]
    /\ UNCHANGED <<proposals, threshold, amount, voters, detached, history, recovery>>

\* is_valid_voting_reaction, lines 58-82, then on_raw_reaction_add, lines
\* 220-225: the helper calls return, the user has the link to the voting
\* message; the message reacted on is an original message, never a voting
\* message, so the gate of line 74 or of line 79 returns False, the cancel
\* emoji is not a heart, and the handler returns without a vote
AddHelpWrongMessage(h) ==
    /\ hs[h].pc = "help_wrong_message"
    /\ hs' = [hs EXCEPT ![h] = IdleHandler]
    /\ UNCHANGED <<proposals, threshold, amount, voters, detached, history, recovery>>

\* is_valid_voting_reaction, lines 60-69: one of the helper's Discord calls
\* raises (the voting message was deleted, the user accepts no private
\* messages); the exception leaves the function and is caught at line 307
HelpWrongMessageFails(h) ==
    /\ hs[h].pc = "help_wrong_message"
    /\ hs' = [hs EXCEPT ![h] = [IdleHandler EXCEPT !.pc = "error_reply"]]
    /\ UNCHANGED <<proposals, threshold, amount, voters, detached, history, recovery>>

\* on_raw_reaction_add, lines 222-225: the heart reaction is doubled, return
AddDoubleHeart(h) ==
    /\ hs[h].pc = "double_heart"
    /\ hs' = [hs EXCEPT ![h] = IdleHandler]
    /\ UNCHANGED <<proposals, threshold, amount, voters, detached, history, recovery>>

\* on_raw_reaction_add, lines 229-246: DM the user, remove the reaction, return
AddRecoveryReject(h) ==
    /\ hs[h].pc = "recovery_reject"
    /\ hs' = [hs EXCEPT ![h] = IdleHandler]
    /\ UNCHANGED <<proposals, threshold, amount, voters, detached, history, recovery>>

\* another handler than h is suspended at line 251 with the object of proposal p
Held(p, h) == \E k \in Handlers \ {h} : hs[k].pc = "get_message" /\ hs[k].pid = p

\* handler h leaves line 251: the list of the object of p is kept while
\* another handler will read it
Release(p, h, n) == [detached EXCEPT ![p] = IF Held(p, h) THEN n ELSE 0]

\* on_raw_reaction_add, lines 267-306, for a proposal that was archived
\* while the handler was suspended at line 251.  add_voter (line 269) is
\* called on the proposal object the handler holds; what it does is decided
\* by code that is not in the repository: it raises (the handler of line 307
\* takes over), or it appends the voter to proposal.voters and stores the
\* Voters row, or it appends without a row being stored.  The rules of lines
\* 281 and 288 then read the author and len(proposal.voters) of that object
AddVoteDeleted(h, u, p) ==
    \/ /\ hs' = [hs EXCEPT ![h] = [IdleHandler EXCEPT !.pc = "error_reply"]]
       /\ detached' = Release(p, h, detached[p])
       /\ UNCHANGED voters
    \/ /\ \E stored \in BOOLEAN : voters' = IF stored THEN add_voter(p, u) ELSE voters
       /\ detached' = Release(p, h, detached[p] + 1)
       /\ LET r == Decide(u, p, detached[p] + 1)
          IN IF r = "none"
             THEN hs' = [hs EXCEPT ![h] = [IdleHandler EXCEPT !.pc = "notify_voter"]]
             ELSE hs' = [hs EXCEPT ![h].reason = r, ![h].pc = "cancel_notify"]

\* AddVote without the duplicate check of lines 253-265
AddVoteNoDuplicateCheck(h) ==
    /\ hs[h].pc = "get_message"
    /\ LET u == hs[h].user
           p == hs[h].pid
       IN IF add_voter_may_raise(p)
          THEN AddVoteDeleted(h, u, p)
          ELSE /\ voters' = add_voter(p, u)
               /\ UNCHANGED detached
               /\ LET r == Decide(u, p, VoterCount(p) + 1)
                  IN IF r = "none"
                     THEN hs' = [hs EXCEPT ![h] = [IdleHandler EXCEPT !.pc = "notify_voter"]]
                     ELSE hs' = [hs EXCEPT ![h].reason = r, ![h].pc = "cancel_notify"]
    /\ UNCHANGED <<proposals, threshold, amount, history, recovery>>

\* AddVote with the rules applied to the voter count read before add_voter
AddVoteCountBeforeWrite(h) ==
    /\ hs[h].pc = "get_message"
    /\ LET u == hs[h].user
           p == hs[h].pid
       IN IF get_voter(u, p)
          THEN /\ hs' = [hs EXCEPT ![h] = IdleHandler]
               /\ detached' = Release(p, h, detached[p])
               /\ UNCHANGED voters
          ELSE IF add_voter_may_raise(p)
          THEN AddVoteDeleted(h, u, p)
          ELSE /\ voters' = add_voter(p, u)
               /\ UNCHANGED detached
               /\ LET r == Decide(u, p, VoterCount(p))
                  IN IF r = "none"
                     THEN hs' = [hs EXCEPT ![h] = [IdleHandler EXCEPT !.pc = "notify_voter"]]
                     ELSE hs' = [hs EXCEPT ![h].reason = r, ![h].pc = "cancel_notify"]
    /\ UNCHANGED <<proposals, threshold, amount, history, recovery>>

\* on_raw_reaction_add, lines 251-306 after get_message returned: duplicate
\* check, add_voter (an exception goes to the handler of line 307), author
\* rule, threshold rule, up to the next Discord await (cancel_proposal line
\* 137, or the DM of line 295).  For a proposal archived while the handler
\* was suspended add_voter either raises or stores the row; the rules then
\* read len(proposal.voters), the rows the proposal has after the write
AddVote(h) ==
    /\ hs[h].pc = "get_message"
    /\ LET u == hs[h].user
           p == hs[h].pid
       IN IF get_voter(u, p)
          THEN /\ hs' = [hs EXCEPT ![h] = IdleHandler]
               /\ detached' = Release(p, h, detached[p])
               /\ UNCHANGED voters
          ELSE IF add_voter_may_raise(p)
          THEN AddVoteDeleted(h, u, p)
          ELSE /\ voters' = add_voter(p, u)
               /\ UNCHANGED detached
               /\ LET r == Decide(u, p, VoterCount(p) + 1)
                  IN IF r = "none"
                     THEN hs' = [hs EXCEPT ![h] = [IdleHandler EXCEPT !.pc = "notify_voter"]]
                     ELSE hs' = [hs EXCEPT ![h].reason = r, ![h].pc = "cancel_notify"]
    /\ UNCHANGED <<proposals, threshold, amount, history, recovery>>

\* on_raw_reaction_add, lines 295-306: the vote was counted and the voter is
\* told by DM (if building the DM raises, by the error reply of line 307):
\* Discord I/O only
AddNotifyVoter(h) ==
    /\ hs[h].pc = "notify_voter"
    /\ hs' = [hs EXCEPT ![h] = IdleHandler]
    /\ UNCHANGED <<proposals, threshold, amount, voters, detached, history, recovery>>

\* cancel_proposal, lines 137-189: the reaction, the reply to the proposer and
\* the edit of the voting message
CancelNotify(h) ==
    /\ hs[h].pc = "cancel_notify"
    /\ hs' = [hs EXCEPT ![h].pc = "cancel_archive"]
    /\ UNCHANGED <<proposals, threshold, amount, voters, detached, history, recovery>>

\* CancelArchive with the history row of the proposal updated in place
\* instead of a new row added
CancelArchiveOverwrites(h) ==
    /\ hs[h].pc = "cancel_archive"
    /\ LET p == hs[h].pid
       IN /\ history' = [history EXCEPT ![p] = <<hs[h].reason>>]
          /\ IF p \in proposals
             THEN /\ proposals' = proposals \ {p}
                  /\ voters' = DeleteCascade(p)
                  /\ \E n \in {0, VoterCount(p)} : detached' = Release(p, h, n)
                  /\ hs' = [hs EXCEPT ![h] = IdleHandler]
             ELSE /\ hs' = [hs EXCEPT ![h] = [IdleHandler EXCEPT !.pc = "error_reply"]]
                  /\ UNCHANGED <<proposals, voters, detached>>
    /\ UNCHANGED <<threshold, amount, recovery>>

\* cancel_proposal, lines 191-205: the history row, then remove_proposal,
\* which raises ValueError when the proposal is no longer in the index.  The
\* delete takes the Voters rows with it (schemas.py:50); whether it also
\* empties proposal.voters of the object is decided by code that is not in
\* the repository, so the list is left empty or as it was
CancelArchive(h) ==
    /\ hs[h].pc = "cancel_archive"
    /\ LET p == hs[h].pid
       IN /\ history' = add_proposals_history_item(p, hs[h].reason)
          /\ IF p \in proposals
             THEN /\ proposals' = proposals \ {p}
                  /\ voters' = DeleteCascade(p)
                  /\ \E n \in {0, VoterCount(p)} : detached' = Release(p, h, n)
                  /\ hs' = [hs EXCEPT ![h] = IdleHandler]
             ELSE /\ hs' = [hs EXCEPT ![h] = [IdleHandler EXCEPT !.pc = "error_reply"]]
                  /\ UNCHANGED <<proposals, voters, detached>>
    /\ UNCHANGED <<threshold, amount, recovery>>

\* on_raw_reaction_add, lines 307-325: the error reply and the critical log
AddErrorReply(h) ==
    /\ hs[h].pc = "error_reply"
    /\ hs' = [hs EXCEPT ![h] = IdleHandler]
    /\ UNCHANGED <<proposals, threshold, amount, voters, detached, history, recovery>>

\* CancelNotifyFails with the archive ahead of the notifications: the
\* proposal is already out of the index when the Discord call raises
CancelNotifyFailsRemoved(h) ==
    /\ hs[h].pc = "cancel_notify"
    /\ proposals' = proposals \ {hs[h].pid}
    /\ voters' = DeleteCascade(hs[h].pid)
    /\ hs' = [hs EXCEPT ![h] = [IdleHandler EXCEPT !.pc = "error_reply"]]
    /\ UNCHANGED <<threshold, detached, amount, history, recovery>>

\* cancel_proposal, lines 137-189, when a Discord call (get_message,
\* add_reaction, reply, edit) raises: nothing in cancel_proposal catches it,
\* lines 191-199 are skipped and the handler of line 307 takes over
CancelNotifyFails(h) ==
    /\ hs[h].pc = "cancel_notify"
    /\ hs' = [hs EXCEPT ![h] = [IdleHandler EXCEPT !.pc = "error_reply"]]
    /\ UNCHANGED <<proposals, threshold, amount, voters, detached, history, recovery>>

\* CancelArchiveFails with the exception swallowed: remove_proposal still runs
CancelArchiveFailsSwallowed(h) ==
    /\ hs[h].pc = "cancel_archive"
    /\ proposals' = proposals \ {hs[h].pid}
    /\ voters' = DeleteCascade(hs[h].pid)
    /\ hs' = [hs EXCEPT ![h] = IdleHandler]
    /\ UNCHANGED <<threshold, detached, amount, history, recovery>>

\* cancel_proposal, line 192, when db.add_proposals_history_item raises: no
\* row is written, remove_proposal (line 199) is skipped and the handler of
\* line 307 takes over
CancelArchiveFails(h) ==
    /\ hs[h].pc = "cancel_archive"
    /\ hs' = [hs EXCEPT ![h] = [IdleHandler EXCEPT !.pc = "error_reply"]]
    /\ UNCHANGED <<proposals, threshold, amount, voters, detached, history, recovery>>

\* on_raw_reaction_add, lines 295-306, when send_dm raises: the vote stays
\* recorded and the handler of line 307 takes over
NotifyVoterFails(h) ==
    /\ hs[h].pc = "notify_voter"
    /\ hs' = [hs EXCEPT ![h] = [IdleHandler EXCEPT !.pc = "error_reply"]]
    /\ UNCHANGED <<proposals, threshold, amount, voters, detached, history, recovery>>

\* OnRawReactionRemove with a recovery gate like the one of on_raw_reaction_add
OnRawReactionRemoveRecoveryGated(u, m, emoji, role_ok, channel) ==
    /\ IF is_valid_voting_reaction(emoji, role_ok, channel, m) /\ ~is_recovery /\ get_voter(u, m)
       THEN voters' = remove_voter(m, u)
       ELSE UNCHANGED voters
    /\ UNCHANGED <<proposals, threshold, detached, amount, history, recovery, hs>>

\* OnRawReactionRemove deleting every Voters row of the proposal
OnRawReactionRemoveAllRows(u, m, emoji, role_ok, channel) ==
    /\ IF is_valid_voting_reaction(emoji, role_ok, channel, m) /\ get_voter(u, m)
       THEN voters' = [voters EXCEPT ![m] = [v \in Users |-> 0]]
       ELSE UNCHANGED voters
    /\ UNCHANGED <<proposals, threshold, detached, amount, history, recovery, hs>>

\* OnRawReactionRemove without the "if not voter: return" of lines 98-106
OnRawReactionRemoveNoVoterCheck(u, m, emoji, role_ok, channel) ==
    /\ IF is_valid_voting_reaction(emoji, role_ok, channel, m)
       THEN voters' = remove_voter(m, u)
       ELSE UNCHANGED voters
    /\ UNCHANGED <<proposals, threshold, detached, amount, history, recovery, hs>>

\* on_raw_reaction_remove, lines 86-109: an invalid reaction returns (line
\* 91), a user without a Voters row is logged and the call returns (lines
\* 98-106), else the row is deleted; no Discord await on these paths
OnRawReactionRemove(u, m, emoji, role_ok, channel) ==
    /\ IF is_valid_voting_reaction(emoji, role_ok, channel, m) /\ get_voter(u, m)
       THEN voters' = remove_voter(m, u)
       ELSE UNCHANGED voters
    /\ UNCHANGED <<proposals, threshold, detached, amount, history, recovery, hs>>

\* grant, lines 18-29 and 152-157: the lookup; "not found" is logged and the
\* call returns (lines 22-24); for a live proposal line 29 calls get_message,
\* a name grant.py neither imports nor defines, and the NameError is caught by
\* the handler of line 152, which awaits fetch_message
GrantStart(h, p) ==
    /\ hs[h].pc = "idle"
    /\ IF p \in proposals
       THEN hs' = [hs EXCEPT ![h] = [IdleHandler EXCEPT !.pc = "grant_error_reply", !.pid = p]]
       ELSE UNCHANGED hs
    /\ UNCHANGED <<proposals, threshold, amount, voters, detached, history, recovery>>

\* grant, lines 157-170: the error reply and the critical log
GrantErrorReply(h) ==
    /\ hs[h].pc = "grant_error_reply"
    /\ hs' = [hs EXCEPT ![h] = IdleHandler]
    /\ UNCHANGED <<proposals, threshold, amount, voters, detached, history, recovery>>

\* on_raw_reaction_add, line 251, when get_message raises: the handler of
\* line 307 takes over and nothing was written
GetMessageFails(h) ==
    /\ hs[h].pc = "get_message"
    /\ hs' = [hs EXCEPT ![h] = [IdleHandler EXCEPT !.pc = "error_reply"]]
    /\ detached' = Release(hs[h].pid, h, detached[hs[h].pid])
    /\ UNCHANGED <<proposals, threshold, amount, voters, history, recovery>>

\* on_raw_reaction_add, lines 223-224 and 233-239, when a Discord call of the
\* heart doubling or of the recovery rejection raises: the handler of line
\* 307 takes over
RejectFails(h) ==
    /\ hs[h].pc \in {"double_heart", "recovery_reject"}
    /\ hs' = [hs EXCEPT ![h] = [IdleHandler EXCEPT !.pc = "error_reply"]]
    /\ UNCHANGED <<proposals, threshold, amount, voters, detached, history, recovery>>

\* AddErrorReplyFails without the inner try of lines 308-316: the exception
\* of the reply leaves on_raw_reaction_add
AddErrorReplyFailsEscapes(h) ==
    /\ hs[h].pc = "error_reply"
    /\ hs' = [hs EXCEPT ![h] = [IdleHandler EXCEPT !.pc = "escaped"]]
    /\ UNCHANGED <<proposals, threshold, amount, voters, detached, history, recovery>>

\* on_raw_reaction_add, lines 308-325, when the error reply itself raises:
\* the inner except of line 315 logs it, the critical log of line 318 follows
\* and the handler returns
AddErrorReplyFails(h) ==
    /\ hs[h].pc = "error_reply"
    /\ hs' = [hs EXCEPT ![h] = IdleHandler]
    /\ UNCHANGED <<proposals, threshold, amount, voters, detached, history, recovery>>

\* on_raw_reaction_remove, lines 109-115, when remove_voter raises for a user
\* with a Voters row on a live proposal: no row is deleted and the handler of
\* line 111 awaits get_message for its reply
RemoveStoreFails(h, u, m) ==
    /\ hs[h].pc = "idle"
    /\ is_valid_voting_reaction("cancel", TRUE, "voting", m)
    /\ get_voter(u, m)
    /\ hs' = [hs EXCEPT ![h] = [IdleHandler EXCEPT !.pc = "remove_error_reply"]]
    /\ UNCHANGED <<proposals, threshold, amount, voters, detached, history, recovery>>

\* on_raw_reaction_remove, lines 112-128: the error reply, or the log of line
\* 119 when the reply raises, then the critical log and the return
RemoveErrorReply(h) ==
    /\ hs[h].pc = "remove_error_reply"
    /\ hs' = [hs EXCEPT ![h] = IdleHandler]
    /\ UNCHANGED <<proposals, threshold, amount, voters, detached, history, recovery>>

\* grant, lines 153-170, when the error reply itself raises: the inner except
\* of line 163 logs it, the critical log follows and grant returns
GrantErrorReplyFails(h) ==
    /\ hs[h].pc = "grant_error_reply"
    /\ hs' = [hs EXCEPT ![h] = IdleHandler]
    /\ UNCHANGED <<proposals, threshold, amount, voters, detached, history, recovery>>

\* ------------------------------------------------------- specifications
\* a new invocation takes the first free slot
FreeSlot(h) == hs[h].pc = "idle" /\ \A k \in Handlers : k < h => hs[k].pc # "idle"

StartAdd    == \E h \in Handlers, u \in Users, m \in Messages, g \in Gates :
                  FreeSlot(h) /\ AddStart(h, u, m, g[1], g[2], g[3])
StartRemove == \E u \in Users, m \in Messages, g \in Gates :
                  OnRawReactionRemove(u, m, g[1], g[2], g[3])
StartGrant  == \E h \in Handlers, p \in Pids : FreeSlot(h) /\ GrantStart(h, p)
Operator    == \E b \in BOOLEAN : SetRecovery(b)

\* a suspended on_raw_reaction_add that records no vote resumes
ResumeReject ==
    \/ \E h \in Handlers : AddDoubleHeart(h)
    \/ \E h \in Handlers : AddRecoveryReject(h)

\* a suspended on_raw_reaction_add that passed every gate resumes
ResumeVote ==
    \/ \E h \in Handlers : AddVote(h)
    \/ \E h \in Handlers : AddNotifyVoter(h)
    \/ \E h \in Handlers : CancelNotify(h)
    \/ \E h \in Handlers : CancelArchive(h)

\* a suspended on_raw_reaction_add resumes
ResumeAdd == ResumeReject \/ ResumeVote

\* an on_raw_reaction_add suspended in the helper branch of
\* is_valid_voting_reaction resumes: its Discord calls returned, or one raised
ResumeHelp ==
    \/ \E h \in Handlers : AddHelpWrongMessage(h)
    \/ \E h \in Handlers : HelpWrongMessageFails(h)

\* the error path of on_raw_reaction_add resumes
ResumeError == \E h \in Handlers : AddErrorReply(h)

\* a suspended grant resumes
ResumeGrant == \E h \in Handlers : GrantErrorReply(h)

Next == StartAdd \/ StartRemove \/ StartGrant \/ Operator
           \/ ResumeAdd \/ ResumeHelp \/ ResumeError \/ ResumeGrant

\* the event loop with any number of handlers in flight
Spec == Init /\ [][Next]_vars

\* no handler is in flight
Quiescent == \A h \in Handlers : hs[h].pc = "idle"

\* events handled one after the other: a handler starts only when none is in flight
NextSeq ==
    \/ Quiescent /\ StartAdd
    \/ Quiescent /\ StartRemove
    \/ Quiescent /\ StartGrant
    \/ Operator
    \/ ResumeAdd
    \/ ResumeHelp
    \/ ResumeError
    \/ ResumeGrant

SpecSeq == Init /\ [][NextSeq]_vars

\* the vote events of one proposal and the recovery flag, with any number of
\* handlers in flight
OneProposal == CHOOSE p \in Pids : \A q \in Pids : p <= q

NextOne ==
    \/ \E h \in Handlers, u \in Users, g \in Gates :
          FreeSlot(h) /\ AddStart(h, u, OneProposal, g[1], g[2], g[3])
    \/ \E u \in Users, g \in Gates : OnRawReactionRemove(u, OneProposal, g[1], g[2], g[3])
    \/ Operator
    \/ ResumeAdd
    \/ ResumeError

SpecOne == Init /\ [][NextOne]_vars

\* a Discord call of a suspended on_raw_reaction_add that passed every gate
\* raises: get_message of line 251, a call of cancel_proposal (lines 137-189)
\* or the private message to the voter of line 295
NotifyFails ==
    \/ \E h \in Handlers : GetMessageFails(h)
    \/ \E h \in Handlers : CancelNotifyFails(h)
    \/ \E h \in Handlers : NotifyVoterFails(h)

\* the store write of the history row raises
StoreFails == \E h \in Handlers : CancelArchiveFails(h)

\* a cancel reaction of a member with the role, in the voting channel, is
\* added to message m
StartVote(m) ==
    \E h \in Handlers, u \in Users : FreeSlot(h) /\ AddStart(h, u, m, "cancel", TRUE, "voting")

\* such a reaction is removed from message m
StartWithdraw(m) == \E u \in Users : OnRawReactionRemove(u, m, "cancel", TRUE, "voting")

\* votes, withdrawals and grant calls on one proposal, any number of handlers
\* in flight, and Discord calls that may raise
NextNotifyFail ==
    \/ StartVote(OneProposal)
    \/ StartWithdraw(OneProposal)
    \/ \E h \in Handlers : FreeSlot(h) /\ GrantStart(h, OneProposal)
    \/ ResumeVote
    \/ ResumeError
    \/ ResumeGrant
    \/ NotifyFails

SpecNotifyFail == Init /\ [][NextNotifyFail]_vars

\* votes and withdrawals on one proposal, any number of handlers in flight,
\* and a history write that may raise
NextStoreFail ==
    \/ StartVote(OneProposal)
    \/ StartWithdraw(OneProposal)
    \/ ResumeVote
    \/ ResumeError
    \/ StoreFails

SpecStoreFail == Init /\ [][NextStoreFail]_vars

\* votes, withdrawals and grant calls on all proposals handled in sequence,
\* with Discord calls and history writes that may raise
NextSeqFail ==
    \/ Quiescent /\ \E p \in Pids : StartVote(p)
    \/ Quiescent /\ \E p \in Pids : StartWithdraw(p)
    \/ Quiescent /\ StartGrant
    \/ ResumeVote
    \/ ResumeError
    \/ ResumeGrant
    \/ NotifyFails
    \/ StoreFails

SpecSeqFail == Init /\ [][NextSeqFail]_vars

\* handler h, suspended at a Discord call, resumes: the call returned or raised
Continue(h) ==
    \/ AddHelpWrongMessage(h)
    \/ HelpWrongMessageFails(h)
    \/ AddDoubleHeart(h)
    \/ AddRecoveryReject(h)
    \/ RejectFails(h)
    \/ AddVote(h)
    \/ GetMessageFails(h)
    \/ AddNotifyVoter(h)
    \/ NotifyVoterFails(h)
    \/ CancelNotify(h)
    \/ CancelNotifyFails(h)
    \/ CancelArchive(h)
    \/ CancelArchiveFails(h)
    \/ AddErrorReply(h)
    \/ AddErrorReplyFails(h)
    \/ RemoveErrorReply(h)
    \/ GrantErrorReply(h)
    \/ GrantErrorReplyFails(h)

\* reactions on the voting message and on the original message of one
\* proposal, withdrawals and grant calls on it, handled in sequence, every
\* Discord call and store write may raise
NextFair ==
    \/ Quiescent /\ \E h \in Handlers, u \in Users, g \in Gates :
                       \E m \in {OneProposal, OriginalMessage(OneProposal)} :
                          FreeSlot(h) /\ AddStart(h, u, m, g[1], g[2], g[3])
    \/ Quiescent /\ StartWithdraw(OneProposal)
    \/ Operator
    \/ Quiescent /\ \E h \in Handlers, u \in Users :
                       FreeSlot(h) /\ RemoveStoreFails(h, u, OneProposal)
    \/ Quiescent /\ \E h \in Handlers : FreeSlot(h) /\ GrantStart(h, OneProposal)
    \/ \E h \in Handlers : Continue(h)

\* the event loop resumes every suspended handler: a Discord call returns or
\* raises in the end
SpecFair == Init /\ [][NextFair]_vars /\ \A h \in Handlers : WF_vars(Continue(h))

\* proposals are created with any of the amounts
NextAmount == \E p \in Pids, a \in Amounts : CreateProposal(p, a)

SpecAmount == InitAmount /\ [][NextAmount]_vars

\* ------------------------------------------------------------ properties
Last(s) == s[Len(s)]

\* the rows of p with result CANCELLED_BY_REACHING_THRESHOLD
ThresholdRows(p) == SelectSeq(history[p], LAMBDA r : r = CANCELLED_BY_REACHING_THRESHOLD)

\* handler h is inside cancel_proposal for p
Cancelling(h, p) == hs[h].pid = p /\ hs[h].pc \in {"cancel_notify", "cancel_archive"}

\* the step changes the index entry, the Voters rows or the history of p
ProposalChanged(p) ==
    \/ (p \in proposals) # (p \in proposals')
    \/ voters'[p] # voters[p]
    \/ history'[p] # history[p]

\* handler h is between its lookup of a proposal (line 248) and its last
\* write to it (line 199)
InCritical(h) == hs[h].pc \in {"get_message", "cancel_notify", "cancel_archive"}

\* C1: two interleaved threshold-reaching votes on one proposal cancel it
\* exactly once: never two rows with result CANCELLED_BY_REACHING_THRESHOLD,
\* and once the handlers are done a proposal with such a row has exactly one
\* row and is out of the index.
C1_ExactlyOneCancellation ==
    \A p \in Pids :
        /\ Len(ThresholdRows(p)) <= 1
        /\ (Quiescent /\ ThresholdRows(p) # <<>>) => (Len(history[p]) = 1 /\ p \notin proposals)

\* C2: under every interleaving of vote-add handlers and grant, a proposal
\* never has more than one ProposalHistory row.
C2_AtMostOneHistoryRow == \A p \in Pids : Len(history[p]) <= 1

\* C3: a vote recorded for the proposal's author always selects
\* CANCELLED_BY_PROPOSER, whatever the voter count, and the author's handler
\* archives the live proposal with exactly that result.
C3_AuthorPrecedence ==
    [][\A h \in Handlers :
          LET u == hs[h].user
              p == hs[h].pid
          IN /\ (hs[h].pc = "get_message" /\ u = Author(p) /\ voters'[p][u] = voters[p][u] + 1)
                  => (hs'[h].pc = "cancel_notify" /\ hs'[h].reason = CANCELLED_BY_PROPOSER)
             /\ (hs[h].pc = "cancel_archive" /\ u = Author(p) /\ hs'[h].pc # "cancel_archive")
                  => /\ history'[p] = Append(history[p], CANCELLED_BY_PROPOSER)
                     /\ p \in proposals
                     /\ proposals' = proposals \ {p}]_vars

\* C3 witness: the author's own vote brought the count to the threshold and
\* the handler is cancelling with CANCELLED_BY_PROPOSER.
C3_Witness ==
    \E h \in Handlers :
        /\ hs[h].pc = "cancel_notify"
        /\ hs[h].user = Author(hs[h].pid)
        /\ hs[h].reason = CANCELLED_BY_PROPOSER
        /\ threshold[hs[h].pid] >= 2
        /\ VoterCount(hs[h].pid) = threshold[hs[h].pid]

\* C4: with the vote events handled in sequence, a row is
\* CANCELLED_BY_REACHING_THRESHOLD exactly when, at the archive, the distinct
\* recorded voters are at least proposal.threshold and the author is not among
\* them; and between events a live proposal has fewer distinct voters than
\* its threshold and no row, a closed one exactly one row.
C4_ThresholdIff ==
    /\ [](Quiescent => \A p \in Pids :
              IF p \in proposals
              THEN Cardinality(VoterSet(p)) < threshold[p] /\ history[p] = <<>>
              ELSE Len(history[p]) = 1)
    /\ [][\A p \in Pids :
            history'[p] # history[p] =>
                ((Last(history'[p]) = CANCELLED_BY_REACHING_THRESHOLD)
                   <=> (Cardinality(VoterSet(p)) >= threshold[p] /\ voters[p][Author(p)] = 0))]_vars

\* C4 witness: threshold 3, three distinct non-author voters, the third vote
\* is being turned into a cancellation by reaching the threshold.
C4_Witness ==
    \E h \in Handlers :
        /\ hs[h].pc = "cancel_archive"
        /\ hs[h].reason = CANCELLED_BY_REACHING_THRESHOLD
        /\ threshold[hs[h].pid] = 3
        /\ Cardinality(VoterSet(hs[h].pid)) = 3
        /\ Author(hs[h].pid) \notin VoterSet(hs[h].pid)

\* C5: with the vote events handled in sequence, whenever the author has a
\* Voters row on a proposal a handler is cancelling that proposal with
\* CANCELLED_BY_PROPOSER, and a row is CANCELLED_BY_PROPOSER exactly when the
\* author is among the recorded voters at the archive.
C5_ProposerIff ==
    /\ [](\A p \in Pids : voters[p][Author(p)] > 0 =>
              \E h \in Handlers : Cancelling(h, p) /\ hs[h].reason = CANCELLED_BY_PROPOSER)
    /\ [][\A p \in Pids :
            history'[p] # history[p] =>
                ((Last(history'[p]) = CANCELLED_BY_PROPOSER) <=> voters[p][Author(p)] > 0)]_vars

\* C5 witness: the author voted after another user and the proposal is being
\* cancelled by the proposer.
C5_Witness ==
    \E h \in Handlers, u \in Users :
        /\ Cancelling(h, hs[h].pid)
        /\ hs[h].pc = "cancel_archive"
        /\ hs[h].reason = CANCELLED_BY_PROPOSER
        /\ u # Author(hs[h].pid)
        /\ {u, Author(hs[h].pid)} \subseteq VoterSet(hs[h].pid)

\* C6: a proposal never holds two Voters rows of one user: the number of rows
\* equals the number of distinct users with a row.
C6_OneVoterPerUser ==
    \A p \in Pids : VoterCount(p) = Cardinality(VoterSet(p))

\* C6 witness: a user already has a row on a live proposal while a second
\* vote-add handler of the same user, which passed validation before the first
\* was recorded, is about to run its duplicate check.
C6_Witness ==
    \E h \in Handlers :
        /\ hs[h].pc = "get_message"
        /\ hs[h].pid \in proposals
        /\ voters[hs[h].pid][hs[h].user] = 1
        /\ \E k \in Handlers : k # h /\ hs[k].pc = "notify_voter"

\* C7: once a proposal is closed (out of the index, with a history row), no
\* step changes its index entry, its Voters rows or its history rows.
C7_TerminalIsFrozen ==
    [][\A p \in Pids :
          (p \notin proposals /\ history[p] # <<>>) =>
              (p \notin proposals' /\ voters'[p] = voters[p] /\ history'[p] = history[p])]_vars

\* C8: a step creates a history row for a proposal exactly when it removes
\* that proposal from the index, and no proposal with a row is live.
C8_ArchiveAtomic ==
    [][\A p \in Pids :
          /\ (history'[p] # history[p]) <=> (p \in proposals /\ p \notin proposals')
          /\ history'[p] # <<>> => p \notin proposals']_vars

\* C9: no two handlers are at the same time between their lookup of one
\* proposal and their last write to it.
C9_MutualExclusion ==
    \A h, k \in Handlers :
        (h # k /\ InCritical(h) /\ InCritical(k)) => hs[h].pid # hs[k].pid

\* C10: an on_raw_reaction_add call that starts while the recovery flag is
\* set is rejected (or is no vote at all), and neither its first step nor its
\* rejection step changes the index, the Voters rows or the history.
C10_RecoveryRejects ==
    [][\A h \in Handlers :
          /\ (recovery /\ hs[h].pc = "idle" /\ hs'[h].pc \notin {"idle", "grant_error_reply"})
                => /\ hs'[h].pc \in {"recovery_reject", "double_heart", "help_wrong_message"}
                   /\ UNCHANGED <<proposals, voters, history>>
          /\ (hs[h].pc = "recovery_reject" /\ hs'[h] # hs[h])
                => /\ hs'[h] = IdleHandler
                   /\ UNCHANGED <<proposals, voters, history>>]_vars

\* C10 witness: a valid vote on a live proposal was rejected while the flag is set.
C10_Witness ==
    \E h \in Handlers : hs[h].pc = "recovery_reject" /\ recovery /\ OneProposal \in proposals

\* C11: the recovery flag gates neither withdrawals nor grant: while the flag
\* is set, on_raw_reaction_remove of a user with a Voters row on a live
\* proposal can still delete that row, and grant of a live proposal still
\* goes past its lookup, the same step it takes with the flag clear.
C11_RecoveryDoesNotGate ==
    recovery =>
        \A p \in proposals :
            /\ \A u \in Users :
                  voters[p][u] > 0 =>
                      ENABLED (/\ OnRawReactionRemove(u, p, "cancel", TRUE, "voting")
                               /\ voters'[p][u] = voters[p][u] - 1)
            /\ \A h \in Handlers :
                  hs[h].pc = "idle" =>
                      ENABLED (GrantStart(h, p) /\ hs'[h].pc # "idle" /\ hs'[h].pid = p)

\* C11 witness: the flag is set, a user has a Voters row on a live proposal
\* and a grant call on a live proposal is in flight.
C11_Witness ==
    /\ recovery
    /\ \E p \in proposals, u \in Users : voters[p][u] > 0
    /\ \E h \in Handlers : hs[h].pc = "grant_error_reply" /\ hs[h].pid \in proposals

\* C12: with the events handled in sequence, a grant call on a live proposal
\* that was not cancelled completes with one history row ACCEPTED for it and
\* the proposal out of the index.
C12_GrantAccepts ==
    [][\A h \in Handlers :
          LET p == hs[h].pid
          IN (hs[h].pc = "grant_error_reply" /\ hs'[h].pc = "idle" /\ history[p] = <<>>)
                => (history'[p] = <<ACCEPTED>> /\ p \notin proposals')]_vars

\* C13: every Voters row belongs to a live proposal: a proposal that is out
\* of the index has no Voters row, the archive having deleted all of them.
\* It fails when a handler that looked the proposal up before the archive
\* resumes after it and its add_voter stores the row.
C13_NoOrphanVoters ==
    \A p \in Pids : p \notin proposals => \A u \in Users : voters[p][u] = 0

\* C14: no proposal is ever lost: in every state each proposal is live or
\* has a history row, and a cancel_proposal whose notification step raises
\* leaves the index, the Voters rows and the history as they were; a grant
\* call that fails leaves them as they were too.
C14_NoProposalLost ==
    /\ [](\A p \in Pids : p \in proposals \/ history[p] # <<>>)
    /\ [][\A h \in Handlers :
            \/ hs[h].pc = "cancel_notify" /\ hs'[h].pc = "error_reply"
            \/ hs[h].pc = "idle" /\ hs'[h].pc = "grant_error_reply"
            \/ hs[h].pc = "grant_error_reply" /\ hs'[h].pc = "idle"
            => UNCHANGED <<proposals, voters, history>>]_vars

\* C14 witness: the notification step of a cancel_proposal raised: the error
\* reply is pending, the proposal is live with its voters at or above the
\* threshold, and no handler is cancelling it.
C14_Witness ==
    /\ OneProposal \in proposals
    /\ VoterCount(OneProposal) >= threshold[OneProposal]
    /\ \E h \in Handlers : hs[h].pc = "error_reply"
    /\ \A h \in Handlers : ~Cancelling(h, OneProposal) /\ hs[h].pc # "notify_voter"

\* C15: when the history write of cancel_proposal raises, that step writes
\* no row, leaves the index and the Voters rows as they were, so a live
\* proposal stays live without a history row, and hands the exception to the
\* error reply of on_raw_reaction_add.
C15_HistoryWriteFails ==
    [][\A h \in Handlers :
          LET p == hs[h].pid
          IN (hs[h].pc = "cancel_archive" /\ hs'[h] # hs[h] /\ history'[p] = history[p])
                => /\ hs'[h].pc = "error_reply"
                   /\ UNCHANGED <<proposals, voters>>
                   /\ p \in proposals => history'[p] = <<>>]_vars

\* C15 witness: the history write of the author's cancellation raised: the
\* error reply is pending and the proposal is live, with the author's Voters
\* row and no history row.
C15_Witness ==
    /\ OneProposal \in proposals
    /\ voters[OneProposal][Author(OneProposal)] = 1
    /\ history[OneProposal] = <<>>
    /\ \E h \in Handlers : hs[h].pc = "error_reply"
    /\ \A h \in Handlers : ~Cancelling(h, OneProposal)

\* C16: the announcement of a cancellation (the reaction, the reply to the
\* proposer and the edit of the voting message) is emitted only after the
\* history row of the proposal is written: a handler that has emitted it,
\* being past the Discord calls of cancel_proposal, finds the row in the store.
C16_WriteBeforeAcknowledge ==
    \A h \in Handlers : hs[h].pc = "cancel_archive" => history[hs[h].pid] # <<>>

\* C17: the threshold rule reads the voter count after add_voter: a handler
\* whose vote brings the rows of a proposal to the threshold or above enters
\* cancel_proposal in the same step, so a live proposal with that many rows
\* always has a handler cancelling it, however the votes interleave.
C17_CountReadAfterWrite ==
    /\ [](\A p \in proposals :
              VoterCount(p) >= threshold[p] => \E h \in Handlers : Cancelling(h, p))
    /\ [][\A h \in Handlers :
            LET p == hs[h].pid
            IN (/\ hs[h].pc = "get_message" /\ hs'[h] # hs[h]
                /\ voters' # voters /\ VoterCount(p) + 1 >= threshold[p])
                  => hs'[h].pc = "cancel_notify"]_vars

\* C17 witness: two handlers voted on one proposal while it had one row less
\* than its threshold; both have written their row and both are cancelling
\* by reaching the threshold.
C17_Witness ==
    \E h, k \in Handlers :
        /\ h # k
        /\ hs[h].pid = hs[k].pid
        /\ hs[h].pc = "cancel_notify" /\ hs[h].reason = CANCELLED_BY_REACHING_THRESHOLD
        /\ hs[k].pc = "cancel_notify" /\ hs[k].reason = CANCELLED_BY_REACHING_THRESHOLD
        /\ threshold[hs[h].pid] >= 2
        /\ VoterCount(hs[h].pid) = threshold[hs[h].pid] + 1

\* C18: a withdrawal (a step that takes a Voters row away from a proposal
\* and keeps the index) deletes exactly one row, that of one user on one live
\* proposal, and changes nothing else: the index, the history and every
\* handler in flight are as before, and no rule is evaluated.
C18_WithdrawalFrame ==
    [][(voters' # voters /\ proposals' = proposals) =>
          \A p \in Pids, u \in Users :
             voters'[p][u] < voters[p][u]
                 => /\ p \in proposals
                    /\ voters' = [voters EXCEPT ![p][u] = @ - 1]
                    /\ UNCHANGED <<history, hs, threshold, detached, amount, recovery>>]_vars

\* C18 witness: a voter withdrew after the threshold was reached: a handler
\* is still cancelling by reaching the threshold while the live proposal has
\* fewer rows than its threshold and no history row.
C18_Witness ==
    \E h \in Handlers :
        /\ Cancelling(h, OneProposal)
        /\ hs[h].reason = CANCELLED_BY_REACHING_THRESHOLD
        /\ OneProposal \in proposals
        /\ history[OneProposal] = <<>>
        /\ VoterCount(OneProposal) < threshold[OneProposal]

\* C19: on_raw_reaction_remove is a no-op for a user without a Voters row
\* and for a message that is not a live proposal: a step taken with no
\* vote-add or grant handler moving changes a Voters row only of a user who
\* had one, on a live proposal, and no row count ever goes below zero.
C19_RemoveNoOp ==
    /\ [](\A p \in Pids, u \in Users : voters[p][u] >= 0)
    /\ [][\A p \in Pids, u \in Users :
            (voters'[p][u] # voters[p][u] /\ hs' = hs)
                => (get_voter(u, p) /\ is_relevant_proposal(p))]_vars

\* C19 witness: one proposal is closed, and on a live one a user has a
\* Voters row while another user has none: removals of the three kinds
\* (closed message, user without row, user with row) can all arrive.
C19_Witness ==
    /\ \E p \in Pids : p \notin proposals /\ history[p] # <<>>
    /\ \E q \in proposals, u, v \in Users : voters[q][u] > 0 /\ voters[q][v] = 0

\* C20: proposals are isolated: a step of a handler working on one proposal,
\* whether it succeeds or raises, changes the index entry, the Voters rows
\* and the history of no other proposal, and no step at all changes two
\* proposals.
C20_Isolation ==
    [][/\ \A h \in Handlers :
            (hs'[h] # hs[h] /\ hs[h].pid \in Pids)
                => \A q \in Pids \ {hs[h].pid} : ~ProposalChanged(q)
       /\ \A p, q \in Pids : (p # q /\ ProposalChanged(p)) => ~ProposalChanged(q)]_vars

\* C20 witness: one proposal was archived and a handler failed, while another
\* proposal is live and keeps its Voters rows.
C20_Witness ==
    \E p, q \in Pids :
        /\ p \notin proposals /\ history[p] # <<>>
        /\ q \in proposals /\ VoterCount(q) > 0
        /\ \E h \in Handlers : hs[h].pc = "error_reply"

\* C21: every invocation of on_raw_reaction_add, on_raw_reaction_remove and
\* grant returns, whichever of its steps raises (the lookup, a store write, a
\* notification or the error reply itself): a handler in flight always comes
\* back to idle, and is never left outside the code of its function.
C21_HandlersReturn ==
    \A h \in Handlers : (hs[h].pc # "idle") ~> (hs[h].pc = "idle")

\* C21 witness: the error reply of an on_raw_reaction_add whose cancellation
\* raised is pending: the proposal is live with its voters at the threshold.
C21_Witness ==
    \E h \in Handlers, p \in proposals :
        /\ hs[h].pc = "error_reply"
        /\ VoterCount(p) >= threshold[p]
        /\ threshold[p] >= 2

\* C22: ProposalHistory is append-only: every step keeps the history rows
\* of every proposal as they are, in their order, and at most adds rows
\* after them.
C22_HistoryAppendOnly ==
    [][\A p \in Pids :
          /\ Len(history'[p]) >= Len(history[p])
          /\ SubSeq(history'[p], 1, Len(history[p])) = history[p]]_vars

\* C22 witness: a vote-add handler ran its archive on a proposal that already
\* had a history row: the first row is still there, followed by a second one
\* with another result.
C22_Witness ==
    /\ Len(history[OneProposal]) = 2
    /\ history[OneProposal][1] # history[OneProposal][2]

\* C23 as stated: every stored proposal has an amount strictly between
\* -1000000000 and 1000000000.
C23_AmountInBounds ==
    \A p \in proposals :
        amount[p] # Null /\ amount[p][1] > -1000000000 /\ amount[p][1] < 1000000000

\* C23 amended: every stored proposal has no amount (NULL) or an amount
\* strictly between -1000000000 and 1000000000; a creation with an amount
\* outside, such as 2000000000 or a bound itself, stores nothing.
C23_AmountNullOrInBounds ==
    /\ [](\A p \in proposals :
              amount[p] # Null => (amount[p][1] > -1000000000 /\ amount[p][1] < 1000000000))
    /\ [][\A p \in Pids, a \in Amounts :
            (CreateProposal(p, a) /\ a # Null /\ (a[1] >= 1000000000 \/ a[1] <= -1000000000))
                => UNCHANGED <<proposals, amount>>]_vars

\* C23 witness: one proposal is stored with the largest amount below the
\* upper bound and another with the smallest above the lower bound.
C23_Witness ==
    \E p, q \in proposals : amount[p] = <<MaxAmount - 1>> /\ amount[q] = <<MinAmount + 1>>

\* C24: whenever no handler is in flight, every live proposal has fewer
\* Voters rows than its threshold and no Voters row of its author, also after
\* a cancel_proposal whose notification raised and after withdrawals.
C24_QuiescentInvariant ==
    Quiescent =>
        \A p \in proposals : VoterCount(p) < threshold[p] /\ voters[p][Author(p)] = 0

\* C26: no Voters row is added by a step taken while the recovery flag is
\* set, whenever the handler that adds it passed the recovery gate.
C26_NoVoteDuringRecovery ==
    [][recovery => \A p \in Pids, u \in Users : voters'[p][u] <= voters[p][u]]_vars

\* C27: a Voters row is created only for a reaction that passes every gate
\* of is_valid_voting_reaction: an on_raw_reaction_add goes on to its vote
\* only with the cancel emoji, the role, the voting channel and the voting
\* message of a live proposal; a row is added only by such a handler, for its
\* user and its proposal; a reaction on the original message of a proposal
\* starts no vote: the handler that answers it with the link to the voting
\* message changes neither the index, the Voters rows nor the history, and
\* ends idle or on the error reply.
C27_OnlyValidReactionsVote ==
    [][/\ \A h \in Handlers :
            (hs[h].pc = "idle" /\ hs'[h].pc = "get_message")
                => /\ hs'[h].pid \in proposals
                   /\ UNCHANGED <<proposals, voters, history>>
                   /\ \A u \in Users, m \in Messages, g \in Gates :
                         AddStart(h, u, m, g[1], g[2], g[3])
                             => (g = <<"cancel", TRUE, "voting">> /\ m \in proposals)
       /\ \A h \in Handlers :
            (hs[h].pc = "help_wrong_message" /\ hs'[h] # hs[h])
                => /\ hs'[h].pc \in {"idle", "error_reply"}
                   /\ UNCHANGED <<proposals, voters, history>>
       /\ \A p \in Pids, u \in Users :
            voters'[p][u] > voters[p][u]
                => \E h \in Handlers :
                      hs[h].pc = "get_message" /\ hs[h].pid = p /\ hs[h].user = u]_vars

\* C27 witness: a vote is recorded on a live proposal and a reaction on the
\* original message of a live proposal is being answered without a vote.
C27_Witness ==
    /\ \E p \in proposals, u \in Users : voters[p][u] = 1
    /\ \E h \in Handlers : hs[h].pc = "help_wrong_message"

TypeOK ==
    /\ proposals \subseteq Pids
    /\ threshold \in [Pids -> 1..MaxThreshold]
    /\ amount \in [Pids -> Amounts]
    /\ voters \in [Pids -> [Users -> 0..NumHandlers]]
    /\ detached \in [Pids -> 0..(NumUsers + NumHandlers)]
    /\ \A p \in Pids : detached[p] # 0 =>
          /\ p \notin proposals
          /\ \E h \in Handlers : hs[h].pc = "get_message" /\ hs[h].pid = p
    /\ recovery \in BOOLEAN
    /\ history \in [Pids -> Seq({CANCELLED_BY_PROPOSER, CANCELLED_BY_REACHING_THRESHOLD, ACCEPTED})]
    /\ \A h \in Handlers : hs[h].pc \in {"idle", "help_wrong_message", "double_heart",
                                         "recovery_reject", "get_message",
                                         "notify_voter", "cancel_notify", "cancel_archive",
                                         "error_reply", "grant_error_reply",
                                         "remove_error_reply"}
====
